---- MODULE Spec2Model ----
(***************************************************************************)
(* Model of the AWRS lookup service of src/main.py: the pure text          *)
(* functions format_awrs, normalise_status and find_after_label, the       *)
(* lookup pipeline lookup_single_awrs and the POST / handler.              *)
(*                                                                         *)
(* A Python string is a sequence of one-character strings, so that         *)
(* trimming, case folding and pattern search are computed and not assumed. *)
(***************************************************************************)
EXTENDS Integers, Sequences, FiniteSets, TLC

VARIABLES
  pc,             \* position of the POST / request in handler and lookup
  request,        \* the JSON body of the request
  awrs_number,    \* webhook_handler / lookup_single_awrs: awrs_number
  supplier_name,  \* webhook_handler / lookup_single_awrs: supplier_name
  soup,           \* lookup_single_awrs: the working document
  statuses,       \* HTTP status received at each network stage (0: none)
  form_data,      \* lookup_single_awrs: the query field of the payload
  trace,          \* the calls of session.get, time.sleep and session.post made
  extracted,      \* lookup_single_awrs: the fields as extracted (l.214-230)
  result,         \* the record lookup_single_awrs returned
  response,       \* the HTTP response of the handler
  fault,          \* description of the exception raised inside the lookup
  invoked,        \* whether the handler called lookup_single_awrs
  fpc,            \* position of a call of a pure function
  fin,            \* its argument(s)
  fout            \* its return value

pvars == <<pc, request, awrs_number, supplier_name, soup, statuses, form_data,
           trace, extracted, result, response, fault, invoked>>
fvars == <<fpc, fin, fout>>
vars == <<pvars, fvars>>

(***************************************************************************)
(* Bounds of the model.                                                    *)
(***************************************************************************)
MaxPad == 1      \* whitespace characters put around a generated input
MaxNodes == 3    \* nodes of a generated document

(***************************************************************************)
(* Characters and Python's str methods.                                    *)
(***************************************************************************)
LowerChars == <<"a","b","c","d","e","f","g","h","i","j","k","l","m","n","o","p","q","r","s","t","u","v","w","x","y","z">>
UpperChars == <<"A","B","C","D","E","F","G","H","I","J","K","L","M","N","O","P","Q","R","S","T","U","V","W","X","Y","Z">>
DigitChars == <<"0","1","2","3","4","5","6","7","8","9">>

Range(s) == {s[i] : i \in DOMAIN s}

\* Python's None: a value that is no string (its element is no character).
None == <<"<None>">>
\* A JSON number: another value that is no string.
JsonNumber == <<"<int>">>
\* A variable that holds no record yet.
NoRecord == [unset |-> TRUE]

\* str.isspace for one character; also the class \s of the re module.
IsSpace(c) == c \in {" ", "\t", "\n", "\r", "\f"}
IsUpperLetter(c) == c \in Range(UpperChars)
IsLowerLetter(c) == c \in Range(LowerChars)
IsLetter(c) == IsUpperLetter(c) \/ IsLowerLetter(c)
IsDigit(c) == c \in Range(DigitChars)

IndexIn(c, s) == CHOOSE i \in DOMAIN s : s[i] = c
UpperChar(c) == IF IsLowerLetter(c) THEN UpperChars[IndexIn(c, LowerChars)] ELSE c
LowerChar(c) == IF IsUpperLetter(c) THEN LowerChars[IndexIn(c, UpperChars)] ELSE c

\* str.upper, str.lower
upper(s) == [i \in DOMAIN s |-> UpperChar(s[i])]
lower(s) == [i \in DOMAIN s |-> LowerChar(s[i])]

SetMin(S) == CHOOSE x \in S : \A y \in S : x <= y
SetMax(S) == CHOOSE x \in S : \A y \in S : x >= y

\* str.strip(): leading and trailing whitespace removed
strip(s) ==
  LET keep == {i \in DOMAIN s : ~IsSpace(s[i])}
  IN IF keep = {} THEN <<>> ELSE SubSeq(s, SetMin(keep), SetMax(keep))

\* str.isalpha, str.isdigit (false for the empty string)
isalpha(s) == s # <<>> /\ \A i \in DOMAIN s : IsLetter(s[i])
isdigit(s) == s # <<>> /\ \A i \in DOMAIN s : IsDigit(s[i])

\* (x or ""): None and "" both give ""
OrEmpty(x) == IF x = None THEN <<>> ELSE x

\* re.sub(r"[^A-Za-z0-9]", "", s)
IsAsciiAlnum(c) == IsLetter(c) \/ IsDigit(c)
SubNonAlnum(s) == SelectSeq(s, IsAsciiAlnum)

(***************************************************************************)
(* format_awrs (src/main.py:11-16)                                         *)
(***************************************************************************)
\* A slip: the canonical form tested on the input before it is uppercased.
format_awrs_NoUpper(urn) ==
  LET u == SubNonAlnum(OrEmpty(urn))
  IN IF Len(u) = 15 /\ isalpha(SubSeq(u, 1, 4)) /\ isdigit(SubSeq(u, 5, 15))
     THEN SubSeq(u, 1, 4) \o <<" ">> \o SubSeq(u, 5, 8) \o <<" ">>
          \o SubSeq(u, 9, 12) \o <<" ">> \o SubSeq(u, 13, 15)
     ELSE upper(strip(OrEmpty(urn)))

format_awrs(urn) ==
  LET u == SubNonAlnum(upper(OrEmpty(urn)))
  IN IF Len(u) = 15 /\ isalpha(SubSeq(u, 1, 4)) /\ isdigit(SubSeq(u, 5, 15))
     THEN SubSeq(u, 1, 4) \o <<" ">> \o SubSeq(u, 5, 8) \o <<" ">>
          \o SubSeq(u, 9, 12) \o <<" ">> \o SubSeq(u, 13, 15)
     ELSE upper(strip(OrEmpty(urn)))

(***************************************************************************)
(* normalise_status (src/main.py:19-34)                                    *)
(***************************************************************************)
\* A slip: the "not applicable" rule left out.
normalise_status_NoNotApplicable(raw) ==
  LET s == lower(strip(OrEmpty(raw)))
  IN IF s = <<"a","p","p","r","o","v","e","d">> THEN <<"A","p","p","r","o","v","e","d">>
     ELSE IF s \in {<<"n","o","t"," ","a","p","p","r","o","v","e","d">>, <<"n","o"," ","l","o","n","g","e","r"," ","a","p","p","r","o","v","e","d">>, <<"n","o","-","l","o","n","g","e","r"," ","a","p","p","r","o","v","e","d">>}
       THEN <<"N","o","t"," ","A","p","p","r","o","v","e","d">>
     ELSE IF s \in {<<"n","o"," ","m","a","t","c","h">>, <<"n","o"," ","r","e","s","u","l","t","s"," ","f","o","u","n","d">>} THEN <<"N","o"," ","M","a","t","c","h">>
     ELSE IF s \in {<<"d","e","r","e","g","i","s","t","e","r","e","d">>, <<"r","e","m","o","v","e","d">>, <<"r","e","v","o","k","e","d">>, <<"a","p","p","l","i","c","a","t","i","o","n"," ","w","i","t","h","d","r","a","w","n">>}
       THEN <<"D","e","r","e","g","i","s","t","e","r","e","d">>
     ELSE IF s = <<>> THEN <<"U","n","k","n","o","w","n">>
     ELSE strip(OrEmpty(raw))

normalise_status(raw) ==
  LET s == lower(strip(OrEmpty(raw)))
  IN IF s = <<"a","p","p","r","o","v","e","d">> THEN <<"A","p","p","r","o","v","e","d">>
     ELSE IF s \in {<<"n","o","t"," ","a","p","p","r","o","v","e","d">>, <<"n","o"," ","l","o","n","g","e","r"," ","a","p","p","r","o","v","e","d">>, <<"n","o","-","l","o","n","g","e","r"," ","a","p","p","r","o","v","e","d">>}
       THEN <<"N","o","t"," ","A","p","p","r","o","v","e","d">>
     ELSE IF s \in {<<"n","o"," ","m","a","t","c","h">>, <<"n","o"," ","r","e","s","u","l","t","s"," ","f","o","u","n","d">>} THEN <<"N","o"," ","M","a","t","c","h">>
     ELSE IF s \in {<<"d","e","r","e","g","i","s","t","e","r","e","d">>, <<"r","e","m","o","v","e","d">>, <<"r","e","v","o","k","e","d">>, <<"a","p","p","l","i","c","a","t","i","o","n"," ","w","i","t","h","d","r","a","w","n">>}
       THEN <<"D","e","r","e","g","i","s","t","e","r","e","d">>
     ELSE IF s = <<"n","o","t"," ","a","p","p","l","i","c","a","b","l","e">> THEN <<"A","p","p","r","o","v","e","d">>
     ELSE IF s = <<>> THEN <<"U","n","k","n","o","w","n">>
     ELSE strip(OrEmpty(raw))

(***************************************************************************)
(* Documents.  A parsed document (BeautifulSoup) is the sequence of its    *)
(* elements in document order, all children of one parent; an element is a *)
(* tag and its text.  "p" stands for any element that is neither a <dt>    *)
(* nor a <dd>.                                                             *)
(***************************************************************************)
Node(tag, text) == [tag |-> tag, text |-> text]

RECURSIVE Concat(_)
Concat(ss) == IF ss = <<>> THEN <<>> ELSE Head(ss) \o Concat(Tail(ss))

\* soup.get_text(): the texts of all elements, concatenated
get_text(doc) == Concat([i \in DOMAIN doc |-> doc[i].text])

\* ' '.join(s.split()).strip(): every whitespace run becomes one space
JoinSplit(s) ==
  LET t == strip(s)
      at == [i \in DOMAIN t |-> <<i, t[i]>>]
      Keep(p) == ~IsSpace(p[2]) \/ ~IsSpace(t[p[1] - 1])
      kept == SelectSeq(at, Keep)
  IN [k \in DOMAIN kept |-> IF IsSpace(kept[k][2]) THEN " " ELSE kept[k][2]]

IsNewline(c) == c \in {"\n", "\r"}

\* re.escape(label) under re.IGNORECASE, matched at position p of t
MatchesAt(t, label, p) ==
  /\ p + Len(label) - 1 <= Len(t)
  /\ \A k \in DOMAIN label : LowerChar(t[p + k - 1]) = LowerChar(label[k])

\* the longest run \s* can take from position i of t
SpaceRun(t, i) ==
  SetMax({n \in 0..(Len(t) + 1 - i) : \A k \in i..(i + n - 1) : IsSpace(t[k])})

\* the text ([^\n\r]+) takes from position q of t (greedy)
LineFrom(t, q) ==
  LET n == SetMax({m \in 1..(Len(t) + 1 - q) :
                     \A k \in q..(q + m - 1) : ~IsNewline(t[k])})
  IN SubSeq(t, q, q + n - 1)

GroupAt(t, q) == q <= Len(t) /\ ~IsNewline(t[q])

\* The greedy choice among the ways a pattern matches: the quantifiers are
\* tried longest first, the last one backtracking first.
LexGreater(x, y) ==
  \E i \in DOMAIN x : x[i] > y[i] /\ \A j \in 1..(i - 1) : x[j] = y[j]
Greedy(C) == CHOOSE x \in C : \A y \in C \ {x} : LexGreater(x, y)

\* \s*:?\s*([^\n\r]+) from position e of t: <<a, c, b, q>>, the lengths the
\* three quantifiers take and where the group starts
Ways2(t, e) ==
  {w \in {<<a, c, b, e + a + c + b>> :
            a \in 0..SpaceRun(t, e), c \in {0, 1}, b \in 0..(Len(t) + 1 - e)} :
     /\ w[2] = 1 => (e + w[1] <= Len(t) /\ t[e + w[1]] = ":")
     /\ w[3] <= SpaceRun(t, e + w[1] + w[2])
     /\ GroupAt(t, w[4])}

\* \s*\n\s*([^\n\r]+) from position e of t: <<a, b, q>>
Ways3(t, e) ==
  {w \in {<<a, b, e + a + 1 + b>> :
            a \in 0..SpaceRun(t, e), b \in 0..(Len(t) + 1 - e)} :
     /\ e + w[1] <= Len(t) /\ t[e + w[1]] = "\n"
     /\ w[2] <= SpaceRun(t, e + w[1] + 1)
     /\ GroupAt(t, w[3])}

Found(v) == [found |-> TRUE, value |-> v]
NotFound == [found |-> FALSE, value |-> <<>>]

(***************************************************************************)
(* find_after_label (src/main.py:37-62)                                    *)
(***************************************************************************)
\* l.41-45: the first <dt> with the label's text that has a following <dd>
\* sibling gives that <dd>'s text, whitespace collapsed
Strategy1(label, doc) ==
  LET IsDd(j) == doc[j].tag = "dd"
      hits == {i \in DOMAIN doc :
                 /\ doc[i].tag = "dt"
                 /\ lower(strip(doc[i].text)) = lower(label)
                 /\ \E j \in DOMAIN doc : j > i /\ IsDd(j)}
  IN IF hits = {} THEN NotFound
     ELSE LET i == SetMin(hits)
              j == SetMin({k \in DOMAIN doc : k > i /\ IsDd(k)})
          IN Found(JoinSplit(doc[j].text))

\* l.48-52: re.search of label\s*:?\s*([^\n\r]+) in the document's text
Strategy2(label, doc) ==
  LET t == get_text(doc)
      hits == {p \in DOMAIN t :
                 MatchesAt(t, label, p) /\ Ways2(t, p + Len(label)) # {}}
  IN IF hits = {} THEN NotFound
     ELSE LET w == Greedy(Ways2(t, SetMin(hits) + Len(label)))
          IN Found(strip(LineFrom(t, w[4])))

\* l.55-58: re.search of label\s*\n\s*([^\n\r]+) in the document's text
Strategy3(label, doc) ==
  LET t == get_text(doc)
      hits == {p \in DOMAIN t :
                 MatchesAt(t, label, p) /\ Ways3(t, p + Len(label)) # {}}
  IN IF hits = {} THEN NotFound
     ELSE LET w == Greedy(Ways3(t, SetMin(hits) + Len(label)))
          IN Found(strip(LineFrom(t, w[3])))

find_after_label(label, doc) ==
  LET s1 == Strategy1(label, doc)
      s2 == Strategy2(label, doc)
      s3 == Strategy3(label, doc)
  IN IF s1.found THEN s1.value
     ELSE IF s2.found THEN s2.value
     ELSE IF s3.found THEN s3.value
     ELSE <<>>

(***************************************************************************)
(* Inputs of the pure functions.                                           *)
(***************************************************************************)
SeqsUpTo(S, n) == UNION {[1..k -> S] : k \in 0..n}

Pads == SeqsUpTo({" ", "\t"}, MaxPad)
Padded(S) == {l \o s \o r : l \in Pads, s \in S, r \in Pads}

Capitalised(w) == [i \in DOMAIN w |-> IF i = 1 THEN UpperChar(w[i]) ELSE w[i]]
Alternating(w) == [i \in DOMAIN w |-> IF i % 2 = 0 THEN UpperChar(w[i]) ELSE w[i]]
Casings(w) == {w, upper(w), Capitalised(w), Alternating(w)}

TableWords ==
  {<<"a","p","p","r","o","v","e","d">>, <<"n","o","t"," ","a","p","p","r","o","v","e","d">>, <<"n","o"," ","l","o","n","g","e","r"," ","a","p","p","r","o","v","e","d">>, <<"n","o","-","l","o","n","g","e","r"," ","a","p","p","r","o","v","e","d">>,
   <<"n","o"," ","m","a","t","c","h">>, <<"n","o"," ","r","e","s","u","l","t","s"," ","f","o","u","n","d">>, <<"d","e","r","e","g","i","s","t","e","r","e","d">>, <<"r","e","m","o","v","e","d">>, <<"r","e","v","o","k","e","d">>,
   <<"a","p","p","l","i","c","a","t","i","o","n"," ","w","i","t","h","d","r","a","w","n">>, <<"n","o","t"," ","a","p","p","l","i","c","a","b","l","e">>}
OtherWords ==
  {<<>>, <<"p","e","n","d","i","n","g">>, <<"u","n","k","n","o","w","n">>, <<"n","o","t"," "," ","a","p","p","r","o","v","e","d">>, <<"n","o","t","a","p","p","l","i","c","a","b","l","e">>,
   <<"a","p","p","r","o","v","e","d"," ","b","y"," ","h","m","r","c">>, <<"n","/","a">>, <<"n","o","\t","m","a","t","c","h">>}

NormInputs == {None} \cup Padded(UNION {Casings(w) : w \in TableWords \cup OtherWords})

FormatInputs ==
  {None} \cup Padded(
    {a \o s1 \o b \o s2 \o c \o s3 \o d :
       a \in {<<"X","A","A","W">>, <<"x","A","a","w">>, <<"X","A","1","W">>, <<"X","A","A">>, <<"X","A","A","W","B">>},
       b \in {<<"0","0","0","0">>, <<"0","0","A","0">>, <<"0","0","0">>},
       c \in {<<"1","2","3","4">>},
       d \in {<<"5","6","7">>, <<"5","6","7","8">>},
       s1 \in {<<>>, <<" ">>, <<"-">>}, s2 \in {<<>>, <<" ">>}, s3 \in {<<>>, <<"/">>}})

FindLabels == {<<"S","t","a","t","u","s">>, <<"D","a","t","e"," ","o","f"," ","d","e","r","e","g","i","s","t","r","a","t","i","o","n">>}
FindNodes ==
  {Node("dt", <<"S","t","a","t","u","s">>), Node("dt", <<" ","s","t","a","t","u","s","\n">>), Node("dt", <<"D","a","t","e"," ","o","f"," ","d","e","r","e","g","i","s","t","r","a","t","i","o","n">>),
   Node("dd", <<>>), Node("dd", <<"A","p","p","r","o","v","e","d">>), Node("dd", <<" ","N","o"," ","l","o","n","g","e","r","\n"," "," ","a","p","p","r","o","v","e","d"," ">>),
   Node("p", <<"S","t","a","t","u","s",":"," ","A","p","p","r","o","v","e","d","\n">>), Node("p", <<"s","t","a","t","u","s","\n"," ","R","e","v","o","k","e","d","\n">>),
   Node("p", <<"S","t","a","t","u","s",":"," ","\n">>), Node("p", <<"D","a","t","e"," ","o","f"," ","d","e","r","e","g","i","s","t","r","a","t","i","o","n",":","N","o","t"," ","a","p","p","l","i","c","a","b","l","e">>),
   Node("p", <<"\n">>)}
FindInputs ==
  {[label |-> l, doc |-> d] : l \in FindLabels, d \in SeqsUpTo(FindNodes, MaxNodes)}

(***************************************************************************)
(* Calls of the pure functions, each from an argument of its input set.    *)
(***************************************************************************)
PipelineOff ==
  /\ pc = "off" /\ request = NoRecord /\ awrs_number = None /\ supplier_name = None
  /\ soup = NoRecord /\ statuses = NoRecord /\ form_data = NoRecord /\ trace = <<>>
  /\ extracted = NoRecord /\ result = NoRecord /\ response = NoRecord /\ fault = None
  /\ invoked = FALSE

InitNorm == fpc = "call" /\ fin \in NormInputs /\ fout = None /\ PipelineOff
CallNorm ==
  /\ fpc = "call"
  /\ fout' = normalise_status(fin)
  /\ fpc' = "ret"
  /\ UNCHANGED <<fin, pvars>>
SpecNorm == InitNorm /\ [][CallNorm]_vars

InitFormat == fpc = "call" /\ fin \in FormatInputs /\ fout = None /\ PipelineOff
CallFormat ==
  /\ fpc = "call"
  /\ fout' = format_awrs(fin)
  /\ fpc' = "ret"
  /\ UNCHANGED <<fin, pvars>>
SpecFormat == InitFormat /\ [][CallFormat]_vars

InitFind == fpc = "call" /\ fin \in FindInputs /\ fout = None /\ PipelineOff
CallFind ==
  /\ fpc = "call"
  /\ fout' = find_after_label(fin.label, fin.doc)
  /\ fpc' = "ret"
  /\ UNCHANGED <<fin, pvars>>
SpecFind == InitFind /\ [][CallFind]_vars

(***************************************************************************)
(* The POST / handler and lookup_single_awrs.                              *)
(*                                                                         *)
(* The registry's pages are the environment: a landing or navigation page  *)
(* is what the lookup reads of it, a results page is a document.           *)
(***************************************************************************)
\* A key the JSON object does not hold.
Missing == <<"<missing>">>

IsString(v) == v \notin {None, JsonNumber, Missing}

AwrsValues ==
  {<<>>, <<" ">>, <<"\t"," ","\n">>, <<"X","A","A","W","0","0","0","0","1","2","3","4","5","6","7">>, <<" ","x","a","a","w"," ","0","0","0","0","-","1","2","3","4"," ","5","6","7"," ">>, <<"1","2","3","4","5">>}
SupplierValues == {Missing, <<"A","c","m","e">>}

\* What request.json gives: it raises ("invalid": no JSON body), is falsy
\* (null, {}, [], 0, ""), is a JSON value without .get ("nonobject": a
\* non-empty array or string, a number), or is an object.
Requests ==
  {[kind |-> k, awrs_number |-> Missing, supplier_name |-> Missing] :
     k \in {"invalid", "falsy", "nonobject"}}
  \cup {[kind |-> "object", awrs_number |-> a, supplier_name |-> n] :
          a \in {Missing, None, JsonNumber} \cup AwrsValues, n \in SupplierValues}

\* str(e) of the exception the handler catches (l.333-341)
HandlerFaultText(req) ==
  IF req.kind = "invalid" THEN <<"4","0","0"," ","B","a","d"," ","R","e","q","u","e","s","t">>
  ELSE IF req.kind = "nonobject" THEN <<"o","b","j","e","c","t"," ","h","a","s"," ","n","o"," ","a","t","t","r","i","b","u","t","e"," ","'","g","e","t","'">>
  ELSE <<"o","b","j","e","c","t"," ","h","a","s"," ","n","o"," ","a","t","t","r","i","b","u","t","e"," ","'","s","t","r","i","p","'">>

\* str(e) of the exceptions raised inside the lookup
Faults == {<<"R","e","a","d"," ","t","i","m","e","d"," ","o","u","t">>, <<"C","o","n","n","e","c","t","i","o","n"," ","r","e","f","u","s","e","d">>}

HttpStatuses == {200, 204, 404, 500}

\* str(n) for a status code
RECURSIVE IntToStr(_)
IntToStr(n) ==
  IF n < 10 THEN <<DigitChars[n + 1]>>
  ELSE IntToStr(n \div 10) \o <<DigitChars[(n % 10) + 1]>>

\* datetime.now().strftime("%d %B %Y %I:%M%p"): the time of the request
Timestamp == <<"0","6"," ","N","o","v","e","m","b","e","r"," ","2","0","2","6"," ","0","3",":","1","0","A","M">>

\* A landing or navigation page: the 'check a URN' link or form of l.112-115
\* ("none", or its href/action "relative" or "absolute"), whether it has a
\* <form>, and the inputs the selectors of l.153-157 can find.
Pages ==
  [link : {"none", "relative", "absolute"}, form : BOOLEAN,
   inputs : SUBSET {"value", "query", "text"}]

\* l.152-160: the first selector that finds an input
TextInput(page) ==
  IF "value" \in page.inputs THEN "value"
  ELSE IF "query" \in page.inputs THEN "query"
  ELSE IF "text" \in page.inputs THEN "text"
  ELSE "none"

\* A row of a definition list, and the line break after it
DlPair(term, def) == <<Node("dt", term), Node("dd", def), Node("p", <<"\n">>)>>
StatusParts ==
  {<<>>, DlPair(<<"S","t","a","t","u","s">>, <<"A","p","p","r","o","v","e","d">>), DlPair(<<"S","t","a","t","u","s">>, <<"N","o"," ","l","o","n","g","e","r"," ","a","p","p","r","o","v","e","d">>),
   DlPair(<<"S","t","a","t","u","s">>, <<"U","n","k","n","o","w","n">>), DlPair(<<"A","p","p","l","i","c","a","t","i","o","n"," ","s","t","a","t","u","s">>, <<"R","e","v","o","k","e","d">>),
   DlPair(<<"S","t","a","t","u","s">>, <<>>), <<Node("p", <<"R","e","g","i","s","t","r","a","t","i","o","n"," ","s","t","a","t","u","s",":"," ","P","e","n","d","i","n","g","\n">>)>>}
DeregParts ==
  {<<>>, DlPair(<<"D","a","t","e"," ","o","f"," ","d","e","r","e","g","i","s","t","r","a","t","i","o","n">>, <<"N","o","t"," ","A","p","p","l","i","c","a","b","l","e">>),
   DlPair(<<"D","a","t","e"," ","o","f"," ","d","e","r","e","g","i","s","t","r","a","t","i","o","n">>, <<"0","1"," ","J","a","n","u","a","r","y"," ","2","0","2","0">>),
   <<Node("p", <<"D","a","t","e"," ","o","f"," ","d","e","r","e","g","i","s","t","r","a","t","i","o","n",":"," "," ","n","o","t"," ","a","p","p","l","i","c","a","b","l","e"," ","\n">>)>>}
NameParts ==
  {<<>>, DlPair(<<"B","u","s","i","n","e","s","s"," ","n","a","m","e">>, <<"A","c","m","e"," ","L","t","d">>) \o DlPair(<<"U","R","N">>, <<"X","A","A","W"," ","0","0","0","0"," ","1","2","3","4"," ","5","6","7">>)}
ResultPages == {n \o s \o d : n \in NameParts, s \in StatusParts, d \in DeregParts}

\* Python's (a or b) on strings
Or(a, b) == IF a # <<>> THEN a ELSE b

\* l.214-230: the fields read from the results page
Extract(page) ==
  [business_name |-> find_after_label(<<"B","u","s","i","n","e","s","s"," ","n","a","m","e">>, page),
   status |-> Or(find_after_label(<<"S","t","a","t","u","s">>, page),
              Or(find_after_label(<<"A","p","p","l","i","c","a","t","i","o","n"," ","s","t","a","t","u","s">>, page),
                 find_after_label(<<"R","e","g","i","s","t","r","a","t","i","o","n"," ","s","t","a","t","u","s">>, page))),
   address |-> Or(find_after_label(<<"P","r","i","n","c","i","p","a","l"," ","p","l","a","c","e"," ","o","f"," ","b","u","s","i","n","e","s","s">>, page),
               Or(find_after_label(<<"B","u","s","i","n","e","s","s"," ","a","d","d","r","e","s","s">>, page),
                  find_after_label(<<"A","d","d","r","e","s","s">>, page))),
   deregistration_date |-> find_after_label(<<"D","a","t","e"," ","o","f"," ","d","e","r","e","g","i","s","t","r","a","t","i","o","n">>, page),
   effective_date |-> Or(find_after_label(<<"E","f","f","e","c","t","i","v","e"," ","d","a","t","e"," ","o","f"," ","r","e","g","i","s","t","r","a","t","i","o","n">>, page),
                         find_after_label(<<"R","e","g","i","s","t","r","a","t","i","o","n"," ","d","a","t","e">>, page)),
   urn |-> Or(find_after_label(<<"U","R","N">>, page), find_after_label(<<"A","W","R","S"," ","U","R","N">>, page))]

\* Extract on every results page of the model, computed once.
ExtractedFrom == [page \in ResultPages |-> Extract(page)]

\* A slip: "not applicable" blanks the date but never sets the status.
PostProcess_NoApproved(ex, awrs, supplier, formatted_urn) ==
  LET status1 == IF ex.status # <<>> THEN normalise_status(ex.status) ELSE ex.status
      na == /\ ex.deregistration_date # <<>>
            /\ lower(strip(ex.deregistration_date)) = <<"n","o","t"," ","a","p","p","l","i","c","a","b","l","e">>
      dereg == IF na THEN <<>> ELSE ex.deregistration_date
  IN [success |-> TRUE,
      status |-> Or(status1, <<"U","n","k","n","o","w","n">>),
      business_name |-> Or(ex.business_name, <<"N","o","t"," ","f","o","u","n","d">>),
      address |-> Or(ex.address, <<>>),
      deregistration_date |-> Or(dereg, <<>>),
      effective_date |-> Or(ex.effective_date, <<>>),
      urn |-> Or(ex.urn, formatted_urn),
      awrs_number |-> awrs,
      supplier_name |-> supplier,
      search_timestamp |-> Timestamp]

\* l.241-266: normalisation, the "not applicable" rule, the result record
PostProcess(ex, awrs, supplier, formatted_urn) ==
  LET status1 == IF ex.status # <<>> THEN normalise_status(ex.status) ELSE ex.status
      na == /\ ex.deregistration_date # <<>>
            /\ lower(strip(ex.deregistration_date)) = <<"n","o","t"," ","a","p","p","l","i","c","a","b","l","e">>
      dereg == IF na THEN <<>> ELSE ex.deregistration_date
      status2 == IF na /\ (status1 = <<>> \/ status1 = <<"U","n","k","n","o","w","n">>)
                 THEN <<"A","p","p","r","o","v","e","d">> ELSE status1
  IN [success |-> TRUE,
      status |-> Or(status2, <<"U","n","k","n","o","w","n">>),
      business_name |-> Or(ex.business_name, <<"N","o","t"," ","f","o","u","n","d">>),
      address |-> Or(ex.address, <<>>),
      deregistration_date |-> Or(dereg, <<>>),
      effective_date |-> Or(ex.effective_date, <<>>),
      urn |-> Or(ex.urn, formatted_urn),
      awrs_number |-> awrs,
      supplier_name |-> supplier,
      search_timestamp |-> Timestamp]

\* A slip: the urn field echoing the identifier in an Error record.
LookupError_EchoUrn(msg, awrs, supplier) ==
  [success |-> FALSE, status |-> <<"E","r","r","o","r">>, error |-> msg,
   business_name |-> <<>>, address |-> <<>>, deregistration_date |-> <<>>,
   effective_date |-> <<>>, urn |-> awrs,
   awrs_number |-> awrs, supplier_name |-> supplier,
   search_timestamp |-> Timestamp]

\* The Error record of lookup_single_awrs (l.93-106, 127-139, 163-175,
\* 195-208, 280-292)
LookupError(msg, awrs, supplier) ==
  [success |-> FALSE, status |-> <<"E","r","r","o","r">>, error |-> msg,
   business_name |-> <<>>, address |-> <<>>, deregistration_date |-> <<>>,
   effective_date |-> <<>>, urn |-> <<>>,
   awrs_number |-> awrs, supplier_name |-> supplier,
   search_timestamp |-> Timestamp]

\* A slip: the caught exception's text left out of the message.
ExceptResult_NoText(f, awrs, supplier) ==
  LookupError(<<"E","r","r","o","r"," ","d","u","r","i","n","g"," ","A","W","R","S"," ","l","o","o","k","u","p">>, awrs, supplier)

\* l.275-292: the record returned for a caught exception
ExceptResult(f, awrs, supplier) ==
  LookupError(<<"E","r","r","o","r"," ","d","u","r","i","n","g"," ","A","W","R","S"," ","l","o","o","k","u","p",":"," ">> \o f, awrs, supplier)

\* The Error record of the handler (l.306-325, 335-354)
HandlerError(msg) ==
  [success |-> FALSE, status |-> <<"E","r","r","o","r">>, error |-> msg,
   business_name |-> <<>>, address |-> <<>>, deregistration_date |-> <<>>,
   effective_date |-> <<>>, urn |-> <<>>,
   search_timestamp |-> Timestamp]

\* flask.jsonify(body): a response with status 200
jsonify(body) == [http |-> 200, body |-> body]

NoStatuses == [landing |-> 0, navigation |-> 0, submission |-> 0]

PureOff == fpc = "off" /\ fin = None /\ fout = None

Init ==
  /\ pc = "handler"
  /\ request \in Requests
  /\ awrs_number = None /\ supplier_name = None
  /\ soup = NoRecord /\ statuses = NoStatuses /\ form_data = NoRecord
  /\ trace = <<>> /\ extracted = NoRecord /\ result = NoRecord /\ response = NoRecord
  /\ fault = None /\ invoked = FALSE
  /\ PureOff

\* data.get(key, '') of l.300-301
Get(req, key) ==
  IF req.kind = "falsy" \/ req[key] = Missing THEN <<>> ELSE req[key]

\* A slip: the identifier tested without being trimmed.
Handle_NoStrip ==
  /\ pc = "handler"
  /\ IF \/ request.kind \in {"invalid", "nonobject"}
        \/ ~IsString(Get(request, "awrs_number"))
     THEN /\ response' = jsonify(HandlerError(HandlerFaultText(request)))
          /\ pc' = "responded"
          /\ UNCHANGED <<awrs_number, supplier_name, invoked>>
     ELSE /\ awrs_number' = Get(request, "awrs_number")
          /\ supplier_name' = Get(request, "supplier_name")
          /\ IF awrs_number' = <<>>
             THEN /\ response' = jsonify(HandlerError(<<"N","o"," ","A","W","R","S"," ","n","u","m","b","e","r"," ","p","r","o","v","i","d","e","d">>))
                  /\ pc' = "responded"
                  /\ UNCHANGED invoked
             ELSE /\ invoked' = TRUE
                  /\ pc' = "session"
                  /\ UNCHANGED response
  /\ UNCHANGED <<request, soup, statuses, form_data, trace, extracted, result,
                 fault, fvars>>

\* webhook_handler up to the call of lookup_single_awrs (l.298-328);
\* an exception of l.299-300 is caught at l.333
Handle ==
  /\ pc = "handler"
  /\ IF \/ request.kind \in {"invalid", "nonobject"}
        \/ ~IsString(Get(request, "awrs_number"))
     THEN /\ response' = jsonify(HandlerError(HandlerFaultText(request)))
          /\ pc' = "responded"
          /\ UNCHANGED <<awrs_number, supplier_name, invoked>>
     ELSE /\ awrs_number' = strip(Get(request, "awrs_number"))
          /\ supplier_name' = Get(request, "supplier_name")
          /\ IF awrs_number' = <<>>
             THEN /\ response' = jsonify(HandlerError(<<"N","o"," ","A","W","R","S"," ","n","u","m","b","e","r"," ","p","r","o","v","i","d","e","d">>))
                  /\ pc' = "responded"
                  /\ UNCHANGED invoked
             ELSE /\ invoked' = TRUE
                  /\ pc' = "session"
                  /\ UNCHANGED response
  /\ UNCHANGED <<request, soup, statuses, form_data, trace, extracted, result,
                 fault, fvars>>

\* The except clause of lookup_single_awrs (l.275-292) for exception f
Caught(f) ==
  /\ fault' = f
  /\ result' = ExceptResult(f, awrs_number, supplier_name)
  /\ pc' = "return"

\* An early return of an Error record
ReturnError(msg) ==
  /\ result' = LookupError(msg, awrs_number, supplier_name)
  /\ pc' = "return"
  /\ UNCHANGED fault

\* l.67-86: the session is created
Session ==
  /\ pc = "session"
  /\ pc' = "landing"
  /\ UNCHANGED <<request, awrs_number, supplier_name, soup, statuses, form_data,
                 trace, extracted, result, response, fault, invoked, fvars>>

\* l.90-122 up to the navigation fetch: the landing page is fetched, its
\* status tested, the 'check a URN' link looked for
GetLanding ==
  /\ pc = "landing"
  /\ trace' = Append(trace, "GET landing")
  /\ \/ \E f \in Faults : Caught(f) /\ UNCHANGED <<soup, statuses>>
     \/ \E code \in HttpStatuses, page \in Pages :
          /\ statuses' = [statuses EXCEPT !.landing = code]
          /\ IF code # 200
             THEN /\ ReturnError(<<"F","a","i","l","e","d"," ","t","o"," ","a","c","c","e","s","s"," ","H","M","R","C"," ","w","e","b","s","i","t","e",":"," ">> \o IntToStr(code))
                  /\ UNCHANGED soup
             ELSE /\ soup' = page
                  /\ pc' = IF page.link = "relative" THEN "navigation" ELSE "form"
                  /\ UNCHANGED <<result, fault>>
  /\ UNCHANGED <<request, awrs_number, supplier_name, form_data, extracted,
                 response, invoked, fvars>>

\* l.118-122: the navigation page is fetched and replaces the document
GetNavigation ==
  /\ pc = "navigation"
  /\ trace' = Append(trace, "GET check-urn")
  /\ \/ \E f \in Faults : Caught(f) /\ UNCHANGED <<soup, statuses>>
     \/ \E code \in HttpStatuses, page \in Pages :
          /\ statuses' = [statuses EXCEPT !.navigation = code]
          /\ soup' = page
          /\ pc' = "form"
          /\ UNCHANGED <<result, fault>>
  /\ UNCHANGED <<request, awrs_number, supplier_name, form_data, extracted,
                 response, invoked, fvars>>

\* A slip: a missing text input not returned on.
FindForm_NoInputCheck ==
  /\ pc = "form"
  /\ IF ~soup.form
     THEN /\ ReturnError(<<"C","o","u","l","d"," ","n","o","t"," ","f","i","n","d"," ","s","e","a","r","c","h"," ","f","o","r","m"," ","o","n"," ","H","M","R","C"," ","w","e","b","s","i","t","e">>)
          /\ UNCHANGED form_data
     ELSE /\ form_data' = [name |-> TextInput(soup), value |-> format_awrs(awrs_number)]
          /\ pc' = "delay"
          /\ UNCHANGED <<result, fault>>
  /\ UNCHANGED <<request, awrs_number, supplier_name, soup, statuses, trace,
                 extracted, response, invoked, fvars>>

\* l.125-186: the form and the text input are looked for, the payload built
FindForm ==
  /\ pc = "form"
  /\ IF ~soup.form
     THEN /\ ReturnError(<<"C","o","u","l","d"," ","n","o","t"," ","f","i","n","d"," ","s","e","a","r","c","h"," ","f","o","r","m"," ","o","n"," ","H","M","R","C"," ","w","e","b","s","i","t","e">>)
          /\ UNCHANGED form_data
     ELSE IF TextInput(soup) = "none"
     THEN /\ ReturnError(<<"C","o","u","l","d"," ","n","o","t"," ","f","i","n","d"," ","t","e","x","t"," ","i","n","p","u","t"," ","f","i","e","l","d">>)
          /\ UNCHANGED form_data
     ELSE /\ form_data' = [name |-> TextInput(soup), value |-> format_awrs(awrs_number)]
          /\ pc' = "delay"
          /\ UNCHANGED <<result, fault>>
  /\ UNCHANGED <<request, awrs_number, supplier_name, soup, statuses, trace,
                 extracted, response, invoked, fvars>>

\* l.189: time.sleep(0.5)
Delay ==
  /\ pc = "delay"
  /\ trace' = Append(trace, "sleep")
  /\ pc' = "submit"
  /\ UNCHANGED <<request, awrs_number, supplier_name, soup, statuses, form_data,
                 extracted, result, response, fault, invoked, fvars>>

\* l.192-273: the form is posted, the status tested, the results page
\* parsed, read and post-processed
Submit ==
  /\ pc = "submit"
  /\ trace' = Append(trace, "POST")
  /\ \/ \E f \in Faults : Caught(f) /\ UNCHANGED <<statuses, extracted>>
     \/ \E code \in HttpStatuses :
          /\ statuses' = [statuses EXCEPT !.submission = code]
          /\ IF code # 200
             THEN /\ ReturnError(<<"S","e","a","r","c","h"," ","f","a","i","l","e","d"," ","w","i","t","h"," ","s","t","a","t","u","s",":"," ">> \o IntToStr(code))
                  /\ UNCHANGED extracted
             ELSE \/ \E page \in ResultPages :
                       /\ extracted' = ExtractedFrom[page]
                       /\ result' = PostProcess(extracted', awrs_number, supplier_name,
                                                form_data.value)
                       /\ pc' = "return"
                       /\ UNCHANGED fault
                  \/ \E f \in Faults : Caught(f) /\ UNCHANGED extracted
  /\ UNCHANGED <<request, awrs_number, supplier_name, soup, form_data,
                 response, invoked, fvars>>

\* An exception raised by a step that issues no request (l.67-86, l.108-186,
\* l.189), caught at l.275
Raise ==
  /\ pc \in {"session", "form", "delay"}
  /\ \E f \in Faults : Caught(f)
  /\ UNCHANGED <<request, awrs_number, supplier_name, soup, statuses, form_data,
                 trace, extracted, response, invoked, fvars>>

\* l.328-331: the handler answers with the lookup's record
Respond ==
  /\ pc = "return"
  /\ response' = jsonify(result)
  /\ pc' = "responded"
  /\ UNCHANGED <<request, awrs_number, supplier_name, soup, statuses, form_data,
                 trace, extracted, result, fault, invoked, fvars>>

Next ==
  \/ Handle
  \/ Session
  \/ GetLanding
  \/ GetNavigation
  \/ FindForm
  \/ Delay
  \/ Submit
  \/ Raise
  \/ Respond

Spec == Init /\ [][Next]_vars

(***************************************************************************)
(* Properties.  The words of a property are defined here on their own, not *)
(* through the operators that model the code.                              *)
(***************************************************************************)
AllSpace(s) == \A i \in DOMAIN s : s[i] \in {" ", "\t", "\n", "\r", "\f"}

\* s without its leading and trailing whitespace: what is left of s when a
\* whitespace prefix and a whitespace suffix are cut off and what is left
\* neither starts nor ends with whitespace (a set of one string)
Trims(s) ==
  {SubSeq(s, c[1] + 1, Len(s) - c[2]) :
     c \in {x \in (0..Len(s)) \X (0..Len(s)) :
              /\ x[1] + x[2] <= Len(s)
              /\ AllSpace(SubSeq(s, 1, x[1]))
              /\ AllSpace(SubSeq(s, Len(s) - x[2] + 1, Len(s)))
              /\ x[1] + x[2] < Len(s) =>
                   /\ ~AllSpace(<<s[x[1] + 1]>>)
                   /\ ~AllSpace(<<s[Len(s) - x[2]]>>)}}

SameIgnoringCase(a, b) ==
  /\ Len(a) = Len(b)
  /\ \A i \in DOMAIN a :
       \/ a[i] = b[i]
       \/ \E k \in DOMAIN LowerChars :
            {a[i], b[i]} = {LowerChars[k], UpperChars[k]}

\* d is "not applicable", ignoring case and surrounding whitespace
IsNotApplicable(d) ==
  \E r \in Trims(d) : SameIgnoringCase(r, <<"n","o","t"," ","a","p","p","l","i","c","a","b","l","e">>)

ContentFields ==
  {"business_name", "address", "deregistration_date", "effective_date", "urn"}
LookupResultFields ==
  {"success", "status", "awrs_number", "supplier_name", "search_timestamp"}
  \cup ContentFields

Finished == pc \in {"return", "responded"}

\* C1: every result record, of the lookup or of the handler, that has
\* success = false has status "Error" and empty content fields.
ErrorShape(r) ==
  r.success = FALSE =>
    r.status = <<"E","r","r","o","r">> /\ \A f \in ContentFields : r[f] = <<>>
C1_FailureIsErrorAndEmpty ==
  /\ result # NoRecord => ErrorShape(result)
  /\ response # NoRecord => ErrorShape(response.body)

\* C1 witness: a lookup that found no text input has been answered.
C1_Witness ==
  /\ pc = "responded" /\ invoked
  /\ response.body.success = FALSE
  /\ response.body.error = <<"C","o","u","l","d"," ","n","o","t"," ","f","i","n","d"," ","t","e","x","t"," ","i","n","p","u","t"," ","f","i","e","l","d">>

\* C2: every response is HTTP 200 with all the fields of LookupResult, and
\* with the error field exactly when success is false.
C2_ResponseShapedLikeLookupResult ==
  pc = "responded" =>
    /\ response.http = 200
    /\ LookupResultFields \subseteq DOMAIN response.body
    /\ ("error" \in DOMAIN response.body) <=> (response.body.success = FALSE)

\* The request has no awrs_number, or one that is empty or only whitespace.
AwrsBlank(req) ==
  \/ req.kind = "falsy"
  \/ /\ req.kind = "object"
     /\ \/ req.awrs_number = Missing
        \/ req.awrs_number \notin {None, JsonNumber} /\ AllSpace(req.awrs_number)

\* C3: a request whose awrs_number is missing, empty or only whitespace is
\* answered success = false, "No AWRS number provided", the lookup is never
\* invoked and no outbound request is issued.
C3_BlankNumberNoLookup ==
  AwrsBlank(request) =>
    /\ ~invoked /\ trace = <<>> /\ pc \in {"handler", "responded"}
    /\ pc = "responded" =>
         /\ response.body.success = FALSE
         /\ response.body.error = <<"N","o"," ","A","W","R","S"," ","n","u","m","b","e","r"," ","p","r","o","v","i","d","e","d">>

\* C3 witness: a whitespace-only awrs_number has been answered.
C3_Witness ==
  /\ pc = "responded"
  /\ request.kind = "object" /\ request.awrs_number = <<"\t"," ","\n">>
  /\ response.body.error = <<"N","o"," ","A","W","R","S"," ","n","u","m","b","e","r"," ","p","r","o","v","i","d","e","d">>

Is2xx(code) == 200 <= code /\ code <= 299

\* C4: a lookup that received a non-2xx status at the landing, navigation
\* or submission stage returns success = false and status "Error".
C4_Non2xxAtAnyStageIsError ==
  (Finished /\ invoked /\ \E st \in DOMAIN statuses :
                            statuses[st] # 0 /\ ~Is2xx(statuses[st]))
    => result.success = FALSE /\ result.status = <<"E","r","r","o","r">>

\* C5: an exception raised inside the lookup is returned as a record with
\* success = false, status "Error", a message carrying the exception's text
\* and the arguments echoed; the handler answers with that record.
EndsWith(s, t) ==
  Len(t) <= Len(s) /\ SubSeq(s, Len(s) - Len(t) + 1, Len(s)) = t
C5_FaultBecomesErrorResult ==
  fault # None =>
    /\ Finished
    /\ result.success = FALSE /\ result.status = <<"E","r","r","o","r">>
    /\ EndsWith(result.error, fault)
    /\ result.awrs_number = awrs_number
    /\ result.supplier_name = supplier_name
    /\ pc = "responded" => response.body = result

\* C5 witness: the form submission raised and the request has been answered.
C5_Witness ==
  /\ fault # None /\ pc = "responded"
  /\ trace # <<>> /\ trace[Len(trace)] = "POST"

\* C6: normalise_status returns the entry of the fixed table for the
\* trimmed, lowercased input, "Unknown" for an empty one, and the trimmed
\* input itself for any other.
NormTable ==
  {<<<<"a","p","p","r","o","v","e","d">>, <<"A","p","p","r","o","v","e","d">>>>,
   <<<<"n","o","t"," ","a","p","p","r","o","v","e","d">>, <<"N","o","t"," ","A","p","p","r","o","v","e","d">>>>,
   <<<<"n","o"," ","l","o","n","g","e","r"," ","a","p","p","r","o","v","e","d">>, <<"N","o","t"," ","A","p","p","r","o","v","e","d">>>>,
   <<<<"n","o","-","l","o","n","g","e","r"," ","a","p","p","r","o","v","e","d">>, <<"N","o","t"," ","A","p","p","r","o","v","e","d">>>>,
   <<<<"n","o"," ","m","a","t","c","h">>, <<"N","o"," ","M","a","t","c","h">>>>,
   <<<<"n","o"," ","r","e","s","u","l","t","s"," ","f","o","u","n","d">>, <<"N","o"," ","M","a","t","c","h">>>>,
   <<<<"d","e","r","e","g","i","s","t","e","r","e","d">>, <<"D","e","r","e","g","i","s","t","e","r","e","d">>>>,
   <<<<"r","e","m","o","v","e","d">>, <<"D","e","r","e","g","i","s","t","e","r","e","d">>>>,
   <<<<"r","e","v","o","k","e","d">>, <<"D","e","r","e","g","i","s","t","e","r","e","d">>>>,
   <<<<"a","p","p","l","i","c","a","t","i","o","n"," ","w","i","t","h","d","r","a","w","n">>, <<"D","e","r","e","g","i","s","t","e","r","e","d">>>>,
   <<<<"n","o","t"," ","a","p","p","l","i","c","a","b","l","e">>, <<"A","p","p","r","o","v","e","d">>>>,
   <<<<>>, <<"U","n","k","n","o","w","n">>>>}
C6_NormaliseStatusTable ==
  fpc = "ret" =>
    LET raw == IF fin = None THEN <<>> ELSE fin
        rows == {e \in NormTable : \E r \in Trims(raw) : SameIgnoringCase(r, e[1])}
    IN IF rows # {} THEN \A e \in rows : fout = e[2]
       ELSE fout \in Trims(raw)

\* C6 witness: a padded, capitalised "not applicable" gave "Approved".
C6_Witness ==
  fpc = "ret" /\ fin = <<" ","N","o","t"," ","a","p","p","l","i","c","a","b","l","e","\t">> /\ fout = <<"A","p","p","r","o","v","e","d">>

\* C7: format_awrs regroups as 4,4,4,3 an input whose alphanumeric
\* characters, uppercased, are 4 letters and 11 digits, and returns any
\* other input trimmed and uppercased.
AlnumUpper(s) ==
  LET IsAlnum(c) == c \in Range(LowerChars) \cup Range(UpperChars) \cup Range(DigitChars)
      Up(c) == IF \E k \in DOMAIN LowerChars : LowerChars[k] = c
               THEN UpperChars[CHOOSE k \in DOMAIN LowerChars : LowerChars[k] = c]
               ELSE c
      kept == SelectSeq(s, IsAlnum)
  IN [i \in DOMAIN kept |-> Up(kept[i])]
IsCanonical(u) ==
  /\ Len(u) = 15
  /\ \A i \in 1..4 : u[i] \in Range(UpperChars)
  /\ \A i \in 5..15 : u[i] \in Range(DigitChars)
C7_FormatAwrs ==
  fpc = "ret" =>
    LET raw == IF fin = None THEN <<>> ELSE fin
        u == AlnumUpper(raw)
    IN IF IsCanonical(u)
       THEN /\ Len(fout) = 18
            /\ \A i \in DOMAIN fout : (i \in {5, 10, 15}) <=> (fout[i] = " ")
            /\ SelectSeq(fout, LAMBDA c : c # " ") = u
       ELSE \E r \in Trims(raw) :
              /\ SameIgnoringCase(fout, r)
              /\ \A i \in DOMAIN fout : fout[i] \notin Range(LowerChars)

\* C7 witness: a lower-case identifier with separators was regrouped.
C7_Witness ==
  fpc = "ret" /\ fin = <<" ","x","A","a","w","-","0","0","0","0"," ","1","2","3","4","/","5","6","7","\t">> /\ fout = <<"X","A","A","W"," ","0","0","0","0"," ","1","2","3","4"," ","5","6","7">>

\* C8: in a successful lookup a "not applicable" deregistration date is
\* returned empty and makes an empty or "Unknown" status "Approved", any
\* other status is returned unchanged; any other date is returned as
\* extracted and an empty status is returned as "Unknown".
C8_NotApplicableRule ==
  (Finished /\ invoked /\ result.success = TRUE) =>
    LET d == extracted.deregistration_date
        s == IF extracted.status # <<>> THEN normalise_status(extracted.status)
             ELSE <<>>
    IN IF IsNotApplicable(d)
       THEN /\ result.deregistration_date = <<>>
            /\ s \in {<<>>, <<"U","n","k","n","o","w","n">>} => result.status = <<"A","p","p","r","o","v","e","d">>
            /\ s \notin {<<>>, <<"U","n","k","n","o","w","n">>} => result.status = s
       ELSE /\ result.deregistration_date = d
            /\ s = <<>> => result.status = <<"U","n","k","n","o","w","n">>
            /\ s # <<>> => result.status = s

\* C8 witness: the date is "Not Applicable", no status was found, and the
\* status returned is "Approved".
C8_Witness ==
  /\ pc = "responded" /\ invoked /\ result.success = TRUE
  /\ extracted.status = <<>>
  /\ extracted.deregistration_date = <<"N","o","t"," ","A","p","p","l","i","c","a","b","l","e">>
  /\ result.status = <<"A","p","p","r","o","v","e","d">> /\ result.deregistration_date = <<>>

\* C9: the outbound requests are a prefix of landing GET, at most one
\* navigation GET, one POST, each at most once; the delay happens once,
\* immediately before the POST; the POST follows a found form and input;
\* and once a result is decided nothing more is issued.
IsPrefix(s, t) == Len(s) <= Len(t) /\ s = SubSeq(t, 1, Len(s))
TraceShape ==
  /\ \/ IsPrefix(trace, <<"GET landing", "GET check-urn", "sleep", "POST">>)
     \/ IsPrefix(trace, <<"GET landing", "sleep", "POST">>)
  /\ (trace # <<>> /\ trace[Len(trace)] = "sleep") => pc = "submit"
  /\ (\E i \in DOMAIN trace : trace[i] = "POST") =>
       soup.form /\ soup.inputs # {}
C9_RequestOrder ==
  /\ []TraceShape
  /\ [][result # NoRecord => trace' = trace]_vars

\* C9 witness: a lookup that issued all three requests has been answered.
C9_Witness ==
  /\ pc = "responded"
  /\ trace = <<"GET landing", "GET check-urn", "sleep", "POST">>

\* C10: find_after_label returns the value of the first of its three
\* strategies that yields a non-empty value, and "" when none does.
C10_FirstNonEmptyStrategy ==
  fpc = "ret" =>
    LET vals == <<Strategy1(fin.label, fin.doc).value,
                  Strategy2(fin.label, fin.doc).value,
                  Strategy3(fin.label, fin.doc).value>>
        full == {k \in DOMAIN vals : vals[k] # <<>>}
    IN fout = IF full = {} THEN <<>> ELSE vals[SetMin(full)]

====
